---- MODULE Spec2Model ----
(***************************************************************************)
(* Model of dnsrobocert/core/utils.py: fix_permissions,                    *)
(* configure_certbot_workspace, digest, validate_snap_environment and      *)
(* execute, each against the part of the operating system it talks to      *)
(* (a directory tree with modes and owners, the process environment, the   *)
(* child process, standard output and the logger).                         *)
(***************************************************************************)
EXTENDS Integers, Sequences, FiniteSets, TLC

VARIABLES
    op,           \* which entry point the process runs: "fix", "cws", "digest", "snap", "execute"
    POSIX_MODE,   \* utils.py:11-16, decided once at import
    privileged,   \* the process bypasses permission checks (CAP_DAC_OVERRIDE, CAP_FOWNER, CAP_CHOWN)
    fs,           \* the directory tree: path -> [kind, mode, uid, gid, data]
    certificate_permissions,   \* the permission spec of the call
    syscalls,     \* chmod/chown/mkdir calls issued by the current call, in order
    warnings,     \* LOGGER.warning calls of the current call
    fpPc,         \* position inside fix_permissions
    fpErr,        \* exception fix_permissions has raised, "" when none
    uid, gid,     \* fix_permissions locals
    cwsPc,        \* position inside configure_certbot_workspace
    cwsErr,       \* exception configure_certbot_workspace has raised
    fixed,        \* the fix_permissions calls this call has made: <<[target, err], ...>>
    callNo,       \* number of configure_certbot_workspace calls started
    fsPrev,       \* the tree as the previous call left it
    environ,      \* os.environ: name -> value, a value being a sequence of characters
    etcListable,  \* os.listdir("/etc") succeeds (FALSE: it raises PermissionError)
    args,         \* the parsed command line: [config, directory]
    valid_paths,  \* validate_snap_environment locals
    errors,
    logged,       \* LOGGER.error calls, in order
    snapPc,       \* position inside validate_snap_environment
    snapErr,      \* exception validate_snap_environment has raised, "" when none
    exitCode,     \* status given to sys.exit, -1 while the process runs
    check, shell, env,   \* execute parameters; env is None or a dict
    localEnv,     \* execute local `env` after utils.py:28-31
    childEnv,     \* the environment handed to the child process, None before the call
    childOutcome, \* how the child attempt ended, "none" before it
    stdout,       \* what has been written to standard output, in order
    info,         \* LOGGER.info calls
    error,        \* execute local `error`
    execPc,       \* position inside execute
    execErr,      \* exception execute has raised, "" when none
    node,         \* what is at the path given to digest: [kind, readable, data]
    config_data,  \* digest local
    result,       \* the value digest returned
    dgPc,         \* position inside digest
    dgErr,        \* exception digest has raised, "" when none
    calls         \* the digest calls that have ended: <<[node, result, err], ...>>

fsVars == <<POSIX_MODE, privileged, fs, certificate_permissions, syscalls, warnings,
            fpPc, fpErr, uid, gid, cwsPc, cwsErr, fixed, callNo, fsPrev>>

snapVars == <<etcListable, args, valid_paths, errors, logged, snapPc, snapErr, exitCode>>

execVars == <<check, shell, env, localEnv, childEnv, childOutcome, stdout, info, error,
             execPc, execErr>>

digestVars == <<node, config_data, result, dgPc, dgErr, calls>>

outsideFs == <<environ, snapVars, execVars, digestVars>>
outsideSnap == <<fsVars, execVars, digestVars>>
outsideExec == <<fsVars, snapVars, digestVars>>
outsideDigest == <<fsVars, snapVars, execVars>>

vars == <<op, fsVars, environ, snapVars, execVars, digestVars>>

(***************************************************************************)
(* Bounds                                                                  *)
(***************************************************************************)
MaxDepth == 2     \* depth of the tree below a workspace directory
MaxCalls == 2     \* successive calls of configure_certbot_workspace

(***************************************************************************)
(* The directory tree.  A path is the sequence of names below              *)
(* directory_path; <<>> is directory_path itself.  Below a workspace       *)
(* directory every directory may hold one file "f" and one directory "d".  *)
(***************************************************************************)
RECURSIVE Chain(_)
Chain(n) == IF n = 0 THEN <<>> ELSE <<"d">> \o Chain(n - 1)

SubPaths == {<<>>} \cup {Chain(n) \o <<c>> : n \in 0..(MaxDepth - 1), c \in {"d", "f"}}

Root == <<>>
Paths == {Root} \cup {<<w>> \o s : w \in {"archive", "live"}, s \in SubPaths}

Parent(p) == SubSeq(p, 1, Len(p) - 1)
Join(p, name) == p \o <<name>>
Last(p) == p[Len(p)]
IsPrefix(p, q) == Len(p) <= Len(q) /\ SubSeq(q, 1, Len(p)) = p
Under(top) == {p \in Paths : IsPrefix(top, p)}

NoEntry == [kind |-> "none", mode |-> 0, uid |-> 0, gid |-> 0]
Dir(m, u, g) == [kind |-> "dir", mode |-> m, uid |-> u, gid |-> g]
File(m, u, g) == [kind |-> "file", mode |-> m, uid |-> u, gid |-> g]

\* Permission bits of the owner class.
OwnerBits(mode) == (mode \div 64) % 8
ReadBit(mode) == OwnerBits(mode) \div 4 = 1
WriteBit(mode) == (OwnerBits(mode) \div 2) % 2 = 1
SearchBit(mode) == OwnerBits(mode) % 2 = 1

\* The unprivileged process owns the tree: every entry starts as 1000:1000 and
\* an unprivileged chown cannot give an entry away.
ProcUid == 1000
ProcGid == 1000

\* On a platform without modes (POSIX_MODE false) mode bits guard nothing.
CanList(f, p) == f[p].kind = "dir" /\ (privileged \/ ~POSIX_MODE \/ ReadBit(f[p].mode))
CanSearch(f, p) == f[p].kind = "dir" /\ (privileged \/ ~POSIX_MODE \/ SearchBit(f[p].mode))
CanWrite(f, p) == f[p].kind = "dir" /\ (privileged \/ ~POSIX_MODE \/ WriteBit(f[p].mode))
\* Path resolution: every proper ancestor of p, directory_path included, is searchable.
CanReach(f, p) == \A n \in 0..(Len(p) - 1) : CanSearch(f, SubSeq(p, 1, n))

\* os.chmod without user/group support only toggles the read-only attribute;
\* os.stat then reports 0o666/0o444 for files and 0o777/0o555 for directories.
WinMode(kind, mode) ==
    IF kind = "dir" THEN (IF WriteBit(mode) THEN 511 ELSE 365)
    ELSE (IF WriteBit(mode) THEN 438 ELSE 292)

\* The mode os.stat reports after os.chmod(path, mode) on this platform.
ModeOnDisk(kind, mode) == IF POSIX_MODE THEN mode ELSE WinMode(kind, mode)

\* The mode of a directory made by os.mkdir(path, 0o777): 0o777 & ~umask with
\* umask 022, and 0o777 where there are no modes.
ModeOnCreate == IF POSIX_MODE THEN 493 ELSE 511

(***************************************************************************)
(* System calls on a machine state m = [fs, log, warnings, err]; a call    *)
(* made after an exception was raised never happens.                       *)
(***************************************************************************)
Machine(f, l, w, e) == [fs |-> f, log |-> l, warnings |-> w, err |-> e]
\* A log entry: the call, its arguments and the error it ended with ("" for none).
Call(name, p, a, b, e) == [call |-> name, path |-> p, a |-> a, b |-> b, err |-> e]
Raise(m, e) == [m EXCEPT !.err = e]

ChmodError(f, p) ==
    IF ~CanReach(f, p) THEN "PermissionError"
    ELSE IF f[p].kind = "none" THEN "FileNotFoundError"
    ELSE ""

Chmod(m, p, mode) ==
    IF m.err # "" THEN m
    ELSE LET e == ChmodError(m.fs, p)
             m1 == [m EXCEPT !.log = Append(@, Call("chmod", p, mode, 0, e))]
         IN IF e # "" THEN Raise(m1, e)
            ELSE [m1 EXCEPT !.fs[p].mode = ModeOnDisk(m.fs[p].kind, mode)]

ChownError(f, p, u, g) ==
    IF ~CanReach(f, p) THEN "PermissionError"
    ELSE IF f[p].kind = "none" THEN "FileNotFoundError"
    ELSE IF ~privileged /\ (u \notin {-1, ProcUid} \/ g \notin {-1, ProcGid})
    THEN "PermissionError"
    ELSE ""

Chown(m, p, u, g) ==
    IF m.err # "" THEN m
    ELSE LET e == ChownError(m.fs, p, u, g)
             m1 == [m EXCEPT !.log = Append(@, Call("chown", p, u, g, e))]
         IN IF e # "" THEN Raise(m1, e)
            ELSE [m1 EXCEPT !.fs[p].uid = IF u = -1 THEN @ ELSE u,
                            !.fs[p].gid = IF g = -1 THEN @ ELSE g]

RECURSIVE ChmodAll(_, _, _)
ChmodAll(m, ps, mode) ==
    IF ps = <<>> THEN m ELSE ChmodAll(Chmod(m, Head(ps), mode), Tail(ps), mode)

RECURSIVE ChownAll(_, _, _, _)
ChownAll(m, ps, u, g) ==
    IF ps = <<>> THEN m ELSE ChownAll(Chown(m, Head(ps), u, g), Tail(ps), u, g)

\* os.path.exists: stat succeeds.
Exists(f, p) == CanReach(f, p) /\ f[p].kind # "none"

(***************************************************************************)
(* fix_permissions (utils.py:54-90)                                        *)
(***************************************************************************)
PyNone == [t |-> "none", n |-> 0, s |-> ""]
PyInt(n) == [t |-> "int", n |-> n, s |-> ""]
PyStr(s) == [t |-> "str", n |-> 0, s |-> s]

DefaultFilesMode == 416    \* 0o640
DefaultDirsMode == 488     \* 0o750

\* dict.get(key, default)
Get(v, default) == IF v.t = "none" THEN default ELSE v.n

\* Python truth value of a value read with dict.get(key): None, 0 and "" are false.
Truthy(v) == (v.t = "int" /\ v.n # 0) \/ (v.t = "str" /\ v.s # "")

\* The account and group databases behind pwd.getpwnam and grp.getgrnam.
Passwd == [certs |-> 1000]
Groups == [certs |-> 1000]

\* utils.py:71-74 and 76-79: an integer passes through, a name is looked up,
\* anything else leaves the no-change value -1.
Lookup(v, db) ==
    IF v.t = "int" THEN [err |-> "", id |-> v.n]
    ELSE IF v.t = "str"
    THEN (IF v.s \in DOMAIN db THEN [err |-> "", id |-> db[v.s]]
          ELSE [err |-> "KeyError", id |-> -1])
    ELSE [err |-> "", id |-> -1]

\* utils.py:55-58
FpChmodTarget(m, cp, target) == Chmod(m, target, Get(cp.dirs_mode, DefaultDirsMode))

\* utils.py:66: the guard of the unsupported-ownership warning
OwnershipRequested(cp) == Truthy(cp.user) \/ Truthy(cp.group)

\* utils.py:60-81; the result carries the locals uid and gid
FpOwnership(m, cp, target) ==
    LET none == [m |-> m, uid |-> -1, gid |-> -1]
        u == Lookup(cp.user, Passwd)
        g == Lookup(cp.group, Groups)
    IN IF m.err # "" THEN none
       ELSE IF OwnershipRequested(cp) /\ ~POSIX_MODE
       THEN [none EXCEPT !.m.warnings = @ + 1]
       ELSE IF POSIX_MODE
       THEN (IF u.err # "" THEN [none EXCEPT !.m = Raise(m, u.err)]
             ELSE IF g.err # "" THEN [none EXCEPT !.m = Raise(m, g.err), !.uid = u.id]
             ELSE [m |-> Chown(m, target, u.id, g.id), uid |-> u.id, gid |-> g.id])
       ELSE none

\* The names os.scandir reports, in a fixed order.
ScanOrder == <<"d", "f">>
RECURSIVE Listing(_, _, _, _)
Listing(f, top, kind, names) ==
    IF names = <<>> THEN <<>>
    ELSE LET p == Join(top, Head(names))
             rest == Listing(f, top, kind, Tail(names))
         IN IF p \in Paths /\ f[p].kind = kind THEN <<p>> \o rest ELSE rest

\* os.walk yields a directory only when os.scandir succeeds on it; with
\* onerror=None a failing scandir is skipped silently.
Scannable(f, top) == CanReach(f, top) /\ CanList(f, top)

\* Mutant of Walk: os.walk(target_path, topdown=False), every subdirectory is
\* walked before the loop body runs on its parent.
RECURSIVE WalkBottomUp(_, _, _, _, _)
RECURSIVE WalkAllBottomUp(_, _, _, _, _)
WalkBottomUp(m, top, cp, u, g) ==
    IF m.err # "" \/ ~Scannable(m.fs, top) THEN m
    ELSE LET dirs == Listing(m.fs, top, "dir", ScanOrder)
             files == Listing(m.fs, top, "file", ScanOrder)
             m0 == WalkAllBottomUp(m, dirs, cp, u, g)
             m1 == ChmodAll(m0, dirs, Get(cp.dirs_mode, DefaultDirsMode))
             m2 == ChmodAll(m1, files, Get(cp.files_mode, DefaultFilesMode))
         IN IF POSIX_MODE THEN ChownAll(m2, files \o dirs, u, g) ELSE m2
WalkAllBottomUp(m, dirs, cp, u, g) ==
    IF dirs = <<>> THEN m
    ELSE WalkAllBottomUp(WalkBottomUp(m, Head(dirs), cp, u, g), Tail(dirs), cp, u, g)

\* utils.py:83-90: os.walk top-down, the loop body run on each yielded triple
RECURSIVE Walk(_, _, _, _, _)
RECURSIVE WalkAll(_, _, _, _, _)
Walk(m, top, cp, u, g) ==
    IF m.err # "" \/ ~Scannable(m.fs, top) THEN m
    ELSE LET dirs == Listing(m.fs, top, "dir", ScanOrder)
             files == Listing(m.fs, top, "file", ScanOrder)
             m1 == ChmodAll(m, dirs, Get(cp.dirs_mode, DefaultDirsMode))
             m2 == ChmodAll(m1, files, Get(cp.files_mode, DefaultFilesMode))
             m3 == IF POSIX_MODE THEN ChownAll(m2, files \o dirs, u, g) ELSE m2
         IN WalkAll(m3, dirs, cp, u, g)
WalkAll(m, dirs, cp, u, g) ==
    IF dirs = <<>> THEN m
    ELSE WalkAll(Walk(m, Head(dirs), cp, u, g), Tail(dirs), cp, u, g)

\* utils.py:54-90 as one call
fix_permissions(m, cp, target) ==
    LET o == FpOwnership(FpChmodTarget(m, cp, target), cp, target)
    IN Walk(o.m, target, cp, o.uid, o.gid)

(***************************************************************************)
(* Inputs                                                                  *)
(***************************************************************************)
\* files_mode: absent, 0o600; dirs_mode: absent, 0o700, 0o300, 0o400, 0.
PermissionSpecs ==
    [files_mode : {PyNone, PyInt(384)},
     dirs_mode : {PyNone, PyInt(448), PyInt(192), PyInt(256), PyInt(0)},
     user : {PyNone, PyInt(0), PyInt(1000), PyStr("certs"), PyStr("ghost")},
     group : {PyNone, PyInt(0), PyStr("certs")}]

\* Entries as certbot and mkdir leave them under umask 022, and a directory
\* somebody closed.
InitEntries == {NoEntry, Dir(493, ProcUid, ProcGid), Dir(0, ProcUid, ProcGid),
                File(420, ProcUid, ProcGid)}

WsTrees ==
    {t \in [SubPaths -> InitEntries] :
        /\ t[<<>>].kind \in {"none", "dir"}
        /\ \A p \in SubPaths \ {<<>>} :
              /\ Last(p) = "d" => t[p].kind \in {"none", "dir"}
              /\ Last(p) = "f" => t[p].kind \in {"none", "file"}
              /\ t[p].kind # "none" => t[Parent(p)].kind = "dir"}

EmptyTree == [p \in SubPaths |-> NoEntry]

MakeFs(r, a, l) ==
    [p \in Paths |-> IF p = Root THEN r
                     ELSE IF p[1] = "archive" THEN a[Tail(p)] ELSE l[Tail(p)]]

M == Machine(fs, syscalls, warnings, "")

\* The state of the entry points that are not running.
SnapIdle ==
    /\ etcListable = TRUE /\ args = [config |-> <<>>, directory |-> <<>>]
    /\ valid_paths = <<>> /\ errors = <<>> /\ logged = <<>>
    /\ snapPc = "idle" /\ snapErr = "" /\ exitCode = -1

ExecIdle ==
    /\ check = TRUE /\ shell = FALSE /\ env = [t |-> "none", v |-> <<>>]
    /\ localEnv = <<>> /\ childEnv = [t |-> "none", v |-> <<>>]
    /\ childOutcome = "none" /\ stdout = <<>> /\ info = 0
    /\ error = "" /\ execPc = "idle" /\ execErr = ""

NoResult == [t |-> "pending", v |-> <<>>]
PyNoneResult == [t |-> "None", v |-> <<>>]
Bytes(v) == [t |-> "bytes", v |-> v]

\* What is at `path`: nothing, a directory, or a file with its content and
\* whether its mode lets the owner read it.
Nothing == [kind |-> "none", readable |-> FALSE, data |-> <<>>]
Directory == [kind |-> "dir", readable |-> TRUE, data |-> <<>>]
RegularFile(r, d) == [kind |-> "file", readable |-> r, data |-> d]

DigestIdle ==
    /\ node = Nothing /\ config_data = <<>> /\ result = NoResult
    /\ dgPc = "idle" /\ dgErr = "" /\ calls = <<>>

(***************************************************************************)
(* SpecFix: one call fix_permissions(certificate_permissions, Target)      *)
(***************************************************************************)
Target == <<"archive">>

CwsIdle ==
    /\ cwsPc = "idle" /\ cwsErr = "" /\ fixed = <<>> /\ callNo = 0

InitFix ==
    /\ op = "fix"
    /\ POSIX_MODE \in BOOLEAN
    /\ privileged \in BOOLEAN
    /\ certificate_permissions \in PermissionSpecs
    /\ \E a \in WsTrees :
          /\ a[<<>>].kind = "dir"
          /\ fs = MakeFs(Dir(493, ProcUid, ProcGid), a, EmptyTree)
    /\ syscalls = <<>> /\ warnings = 0
    /\ fpPc = "chmod_target" /\ fpErr = "" /\ uid = -1 /\ gid = -1
    /\ CwsIdle
    /\ fsPrev = fs
    /\ environ = <<>>
    /\ SnapIdle
    /\ ExecIdle
    /\ DigestIdle

FpSet(m, next) ==
    /\ fs' = m.fs
    /\ syscalls' = m.log
    /\ warnings' = m.warnings
    /\ fpErr' = m.err
    /\ fpPc' = IF m.err # "" THEN "raised" ELSE next

StepChmodTarget ==
    /\ op = "fix" /\ fpPc = "chmod_target"
    /\ FpSet(FpChmodTarget(M, certificate_permissions, Target), "ownership")
    /\ UNCHANGED <<op, POSIX_MODE, privileged, certificate_permissions, uid, gid,
                   cwsPc, cwsErr, fixed, callNo, fsPrev, outsideFs>>

StepOwnership ==
    /\ op = "fix" /\ fpPc = "ownership"
    /\ LET o == FpOwnership(M, certificate_permissions, Target)
       IN /\ FpSet(o.m, "walk")
          /\ uid' = o.uid
          /\ gid' = o.gid
    /\ UNCHANGED <<op, POSIX_MODE, privileged, certificate_permissions,
                   cwsPc, cwsErr, fixed, callNo, fsPrev, outsideFs>>

StepWalk ==
    /\ op = "fix" /\ fpPc = "walk"
    /\ FpSet(Walk(M, Target, certificate_permissions, uid, gid), "returned")
    /\ UNCHANGED <<op, POSIX_MODE, privileged, certificate_permissions, uid, gid,
                   cwsPc, cwsErr, fixed, callNo, fsPrev, outsideFs>>

NextFix == StepChmodTarget \/ StepOwnership \/ StepWalk

SpecFix == InitFix /\ [][NextFix]_vars

(***************************************************************************)
(* configure_certbot_workspace (utils.py:93-108)                           *)
(***************************************************************************)
\* utils.py:96-97: the variable live_path names <directory_path>/archive and
\* archive_path names <directory_path>/live.
live_path == Join(Root, "archive")
archive_path == Join(Root, "live")

\* os.mkdir(path, 0o777) under umask 022; the parent of directory_path is
\* taken to exist and to be writable.
MkdirError(f, p) ==
    IF ~CanReach(f, p) THEN "PermissionError"
    ELSE IF f[p].kind # "none" THEN "FileExistsError"
    ELSE IF p = Root THEN ""
    ELSE IF f[Parent(p)].kind # "dir" THEN "FileNotFoundError"
    ELSE IF ~CanWrite(f, Parent(p)) THEN "PermissionError"
    ELSE ""

Mkdir(m, p) ==
    IF m.err # "" THEN m
    ELSE LET e == MkdirError(m.fs, p)
             m1 == [m EXCEPT !.log = Append(@, Call("mkdir", p, 511, 0, e))]
             owner == IF privileged THEN 0 ELSE ProcUid
             group == IF privileged THEN 0 ELSE ProcGid
         IN IF e # "" THEN Raise(m1, e)
            ELSE [m1 EXCEPT !.fs[p] = Dir(ModeOnCreate, owner, group)]

\* os.makedirs(name): create the missing parents first (a FileExistsError from
\* that recursion is passed over), then the leaf.
RECURSIVE Makedirs(_, _)
Makedirs(m, p) ==
    IF m.err # "" THEN m
    ELSE LET heads == IF p # Root /\ ~Exists(m.fs, Parent(p))
                      THEN Makedirs(m, Parent(p)) ELSE m
             m1 == IF heads.err = "FileExistsError" THEN [heads EXCEPT !.err = ""]
                   ELSE heads
         IN Mkdir(m1, p)

\* utils.py:99-100 and 101-102
EnsureDir(m, p) == IF ~Exists(m.fs, p) THEN Makedirs(m, p) ELSE m

\* Mutant of AfterFixLive: the first failure is kept aside and the second
\* directory is enforced all the same.
AfterFixLiveAlways(err) == "fix_archive"

\* utils.py:107-108: an exception of the first fix_permissions call leaves the
\* function; the second call runs only after the first returned.
AfterFixLive(err) == IF err # "" THEN "raised" ELSE "fix_archive"

(***************************************************************************)
(* SpecWs: successive calls configure_certbot_workspace(config, root)      *)
(***************************************************************************)
WsSpecs ==
    [files_mode : {PyNone}, dirs_mode : {PyNone, PyInt(192), PyInt(256)},
     user : {PyNone, PyInt(0), PyStr("certs"), PyStr("ghost")},
     group : {PyNone, PyStr("certs")}]

\* What the live directory holds at the start: nothing, or one certificate.
LiveTrees == {t \in WsTrees : t[<<"d">>].kind = "none" /\ t[<<>>] # Dir(0, ProcUid, ProcGid)}

InitWs ==
    /\ op = "cws"
    /\ POSIX_MODE \in BOOLEAN
    /\ privileged \in IF POSIX_MODE THEN BOOLEAN ELSE {FALSE}
    /\ certificate_permissions \in WsSpecs
    /\ \/ fs = [p \in Paths |-> NoEntry]
       \/ \E r \in {493, 365}, a \in WsTrees, l \in LiveTrees :
             fs = MakeFs(Dir(r, ProcUid, ProcGid), a, l)
    /\ syscalls = <<>> /\ warnings = 0
    /\ fpPc = "idle" /\ fpErr = "" /\ uid = -1 /\ gid = -1
    /\ cwsPc = "start" /\ cwsErr = "" /\ fixed = <<>> /\ callNo = 0
    /\ fsPrev = fs
    /\ environ = <<>>
    /\ SnapIdle
    /\ ExecIdle
    /\ DigestIdle

CwsSet(m, next) ==
    /\ fs' = m.fs
    /\ syscalls' = m.log
    /\ warnings' = m.warnings
    /\ cwsErr' = m.err
    /\ cwsPc' = next

CwsFrame == UNCHANGED <<op, POSIX_MODE, privileged, certificate_permissions,
                        fpPc, fpErr, uid, gid, callNo, fsPrev, outsideFs>>

\* utils.py:93-97: a call starts where the previous one ended
CwsCall ==
    /\ op = "cws" /\ cwsPc \in {"start", "returned", "raised"}
    /\ callNo < MaxCalls
    /\ callNo' = callNo + 1
    /\ fsPrev' = fs
    /\ syscalls' = Append(syscalls, Call("enter", Root, callNo + 1, 0, ""))
    /\ warnings' = 0
    /\ fixed' = <<>>
    /\ cwsErr' = ""
    /\ cwsPc' = "mk_live"
    /\ UNCHANGED <<op, POSIX_MODE, privileged, certificate_permissions, fs,
                   fpPc, fpErr, uid, gid, outsideFs>>

CwsMakeLive ==
    /\ op = "cws" /\ cwsPc = "mk_live"
    /\ LET m == EnsureDir(M, live_path)
       IN CwsSet(m, IF m.err # "" THEN "raised" ELSE "mk_archive")
    /\ UNCHANGED fixed
    /\ CwsFrame

CwsMakeArchive ==
    /\ op = "cws" /\ cwsPc = "mk_archive"
    /\ LET m == EnsureDir(M, archive_path)
       IN CwsSet(m, IF m.err # "" THEN "raised" ELSE "fix_live")
    /\ UNCHANGED fixed
    /\ CwsFrame

CwsFixLive ==
    /\ op = "cws" /\ cwsPc = "fix_live"
    /\ LET m == fix_permissions(M, certificate_permissions, live_path)
       IN /\ CwsSet(m, AfterFixLive(m.err))
          /\ fixed' = Append(fixed, [target |-> live_path, err |-> m.err])
    /\ CwsFrame

CwsFixArchive ==
    /\ op = "cws" /\ cwsPc = "fix_archive"
    /\ LET m == fix_permissions(M, certificate_permissions, archive_path)
       IN /\ CwsSet(m, IF m.err # "" THEN "raised" ELSE "returned")
          /\ fixed' = Append(fixed, [target |-> archive_path, err |-> m.err])
    /\ CwsFrame

NextWs == CwsCall \/ CwsMakeLive \/ CwsMakeArchive \/ CwsFixLive \/ CwsFixArchive

SpecWs == InitWs /\ [][NextWs]_vars

(***************************************************************************)
(* Strings are sequences of characters.                                    *)
(***************************************************************************)
\* str.startswith(prefix)
StartsWith(str, prefix) ==
    Len(prefix) <= Len(str) /\ SubSeq(str, 1, Len(prefix)) = prefix

\* str.split("/")
RECURSIVE SplitSlash(_)
SplitSlash(str) ==
    IF \A i \in 1..Len(str) : str[i] # "/" THEN <<str>>
    ELSE LET k == CHOOSE i \in 1..Len(str) :
                      str[i] = "/" /\ \A j \in 1..(i - 1) : str[j] # "/"
         IN <<SubSeq(str, 1, k - 1)>> \o SplitSlash(SubSeq(str, k + 1, Len(str)))

\* "/".join(comps)
RECURSIVE JoinSlash(_)
JoinSlash(comps) ==
    IF comps = <<>> THEN <<>>
    ELSE IF Len(comps) = 1 THEN comps[1]
    ELSE comps[1] \o <<"/">> \o JoinSlash(Tail(comps))

DotDot == <<".", ".">>

\* The component loop of posixpath.normpath.
RECURSIVE NormComps(_, _, _)
NormComps(comps, new_comps, initial_slashes) ==
    IF comps = <<>> THEN new_comps
    ELSE LET comp == Head(comps)
             rest == Tail(comps)
         IN IF comp \in {<<>>, <<".">>} THEN NormComps(rest, new_comps, initial_slashes)
            ELSE IF comp # DotDot
                    \/ (initial_slashes = 0 /\ new_comps = <<>>)
                    \/ (new_comps # <<>> /\ new_comps[Len(new_comps)] = DotDot)
            THEN NormComps(rest, Append(new_comps, comp), initial_slashes)
            ELSE IF new_comps # <<>>
            THEN NormComps(rest, SubSeq(new_comps, 1, Len(new_comps) - 1), initial_slashes)
            ELSE NormComps(rest, new_comps, initial_slashes)

\* posixpath.normpath
RECURSIVE Slashes(_)
Slashes(n) == IF n = 0 THEN <<>> ELSE <<"/">> \o Slashes(n - 1)
NormPath(path) ==
    IF path = <<>> THEN <<".">>
    ELSE LET initial_slashes ==
                 IF ~StartsWith(path, <<"/">>) THEN 0
                 ELSE IF StartsWith(path, <<"/", "/">>) /\ ~StartsWith(path, <<"/", "/", "/">>)
                 THEN 2 ELSE 1
             out == Slashes(initial_slashes)
                    \o JoinSlash(NormComps(SplitSlash(path), <<>>, initial_slashes))
         IN IF out = <<>> THEN <<".">> ELSE out

\* posixpath.join(a, b)
PathJoin(a, b) ==
    IF StartsWith(b, <<"/">>) THEN b
    ELSE IF a = <<>> \/ a[Len(a)] = "/" THEN a \o b
    ELSE a \o <<"/">> \o b

\* os.getcwd(): the process runs in the confined home.
Cwd == <<"/", "h">>

\* os.path.abspath
AbsPath(path) ==
    IF StartsWith(path, <<"/">>) THEN NormPath(path) ELSE NormPath(PathJoin(Cwd, path))

(***************************************************************************)
(* validate_snap_environment (utils.py:127-164)                            *)
(***************************************************************************)
None == [t |-> "none", v |-> <<>>]
Some(v) == [t |-> "str", v |-> v]

\* os.environ.get(name)
EnvGet(mapping, name) == IF name \in DOMAIN mapping THEN Some(mapping[name]) ELSE None

Etc == <<"/", "e", "t", "c">>

\* utils.py:131-139
SandboxRootsOf(mapping, listable) ==
    <<EnvGet(mapping, "SNAP_REAL_HOME")>> \o (IF listable THEN <<Some(Etc)>> ELSE <<>>)

\* utils.py:142 and 147: the test one root is put to
RootAccepts(root, path) == StartsWith(AbsPath(path), root)

\* utils.py:141-143 and 146-148: the list comprehension; it visits every
\* root, and str.startswith(None) raises TypeError.
Matching(roots, path) ==
    IF \E i \in 1..Len(roots) : roots[i].t = "none" THEN [err |-> "TypeError", found |-> <<>>]
    ELSE [err |-> "",
          found |-> SelectSeq(roots, LAMBDA r : RootAccepts(r.v, path))]

\* utils.py:144 and 149: the message names the option and carries a value
ConfigMessage(a) == [kind |-> "invalid", option |-> "--config", value |-> a.config]
DirectoryMessage(a) == [kind |-> "invalid", option |-> "--directory", value |-> a.config]

\* utils.py:155-162
Hints == <<[kind |-> "hint", option |-> "", value |-> <<>>],
           [kind |-> "hint", option |-> "", value |-> <<>>],
           [kind |-> "hint", option |-> "", value |-> <<>>]>>

(***************************************************************************)
(* SpecSnap: one run of validate_snap_environment(args)                    *)
(***************************************************************************)
MaxParts == 2    \* components of a path given on the command line

Home == <<"/", "h">>
RECURSIVE CompLists(_)
CompLists(n) ==
    IF n = 0 THEN {<<>>}
    ELSE CompLists(n - 1) \cup
         {Append(cs, c) :
             cs \in {l \in CompLists(n - 1) : Len(l) = n - 1},
             c \in {<<"e", "t", "c">>, <<"e", "t", "c", "f">>, <<"h">>, <<"h", "2">>,
                    <<"x">>, DotDot}}

\* The paths a user can give: absolute or relative to the working directory.
CandidatePaths ==
    {JoinSlash(cs) : cs \in CompLists(MaxParts)} \cup
    {<<"/">> \o JoinSlash(cs) : cs \in CompLists(MaxParts)}

Environments ==
    {<<>>} \cup
    {[SNAP |-> v] : v \in {<<>>, <<"/", "s">>}} \cup
    {[SNAP |-> v, SNAP_REAL_HOME |-> Home] : v \in {<<>>, <<"/", "s">>}} \cup
    {[SNAP_REAL_HOME |-> Home]}

FsIdle ==
    /\ POSIX_MODE = TRUE /\ privileged = FALSE
    /\ certificate_permissions = [files_mode |-> PyNone, dirs_mode |-> PyNone,
                                  user |-> PyNone, group |-> PyNone]
    /\ fs = [p \in Paths |-> NoEntry]
    /\ syscalls = <<>> /\ warnings = 0
    /\ fpPc = "idle" /\ fpErr = "" /\ uid = -1 /\ gid = -1
    /\ CwsIdle
    /\ fsPrev = fs

InitSnap ==
    /\ op = "snap"
    /\ environ \in Environments
    /\ etcListable \in BOOLEAN
    /\ args \in [config : CandidatePaths, directory : CandidatePaths]
    /\ valid_paths = <<>> /\ errors = <<>> /\ logged = <<>>
    /\ snapPc = "guard" /\ snapErr = "" /\ exitCode = -1
    /\ FsIdle
    /\ ExecIdle
    /\ DigestIdle

SnapFrame == UNCHANGED <<op, environ, etcListable, args, outsideSnap>>

\* utils.py:128-129
SnapGuard ==
    /\ op = "snap" /\ snapPc = "guard"
    /\ snapPc' = IF EnvGet(environ, "SNAP").v = <<>> THEN "returned" ELSE "roots"
    /\ UNCHANGED <<valid_paths, errors, logged, snapErr, exitCode>>
    /\ SnapFrame

\* utils.py:131-139
SnapRoots ==
    /\ op = "snap" /\ snapPc = "roots"
    /\ errors' = <<>>
    /\ valid_paths' = SandboxRootsOf(environ, etcListable)
    /\ snapPc' = "check_config"
    /\ UNCHANGED <<logged, snapErr, exitCode>>
    /\ SnapFrame

\* utils.py:141-144
SnapCheckConfig ==
    /\ op = "snap" /\ snapPc = "check_config"
    /\ LET r == Matching(valid_paths, args.config)
       IN /\ snapErr' = r.err
          /\ snapPc' = IF r.err # "" THEN "raised" ELSE "check_directory"
          /\ errors' = IF r.err = "" /\ r.found = <<>>
                       THEN Append(errors, ConfigMessage(args)) ELSE errors
    /\ UNCHANGED <<valid_paths, logged, exitCode>>
    /\ SnapFrame

\* utils.py:146-149
SnapCheckDirectory ==
    /\ op = "snap" /\ snapPc = "check_directory"
    /\ LET r == Matching(valid_paths, args.directory)
       IN /\ snapErr' = r.err
          /\ snapPc' = IF r.err # "" THEN "raised" ELSE "report"
          /\ errors' = IF r.err = "" /\ r.found = <<>>
                       THEN Append(errors, DirectoryMessage(args)) ELSE errors
    /\ UNCHANGED <<valid_paths, logged, exitCode>>
    /\ SnapFrame

\* utils.py:151-152
SnapReport ==
    /\ op = "snap" /\ snapPc = "report"
    /\ logged' = logged \o errors
    /\ snapPc' = "decide"
    /\ UNCHANGED <<valid_paths, errors, snapErr, exitCode>>
    /\ SnapFrame

\* utils.py:154-164
SnapExit ==
    /\ op = "snap" /\ snapPc = "decide"
    /\ IF errors # <<>>
       THEN logged' = logged \o Hints /\ exitCode' = 1 /\ snapPc' = "exited"
       ELSE UNCHANGED <<logged, exitCode>> /\ snapPc' = "returned"
    /\ UNCHANGED <<valid_paths, errors, snapErr>>
    /\ SnapFrame

NextSnap ==
    SnapGuard \/ SnapRoots \/ SnapCheckConfig \/ SnapCheckDirectory \/ SnapReport \/ SnapExit

SpecSnap == InitSnap /\ [][NextSnap]_vars

(***************************************************************************)
(* execute (utils.py:22-51)                                                *)
(***************************************************************************)
\* dict.copy() followed by dict[key] = value
SetItem(d, key, value) ==
    [k \in (DOMAIN d) \cup {key} |-> IF k = key THEN value ELSE d[k]]

\* utils.py:28-29: `not env` holds for None and for an empty dict
EnvOrEnviron(e, os_environ) == IF e.t = "none" \/ DOMAIN e.v = {} THEN os_environ ELSE e.v

\* utils.py:31: the key the assignment writes
UnbufferedKey == "PYTHONUNBUFFERED "

\* utils.py:28-31
ChildEnvironment(e, os_environ) ==
    SetItem(EnvOrEnviron(e, os_environ), UnbufferedKey, <<"1">>)

Delimiter == "----------\n"

\* subprocess.check_call and subprocess.call (utils.py:33 and 43): the
\* exception the call ends with.  A command that cannot be started raises
\* OSError from either; a non-zero exit raises only from check_call.
CallError(chk, outcome) ==
    IF outcome = "launch_failure" THEN "OSError"
    ELSE IF outcome = "nonzero" /\ chk THEN "CalledProcessError"
    ELSE ""

\* utils.py:42-45: the except clause
Caught(e) == e = "CalledProcessError"

(***************************************************************************)
(* SpecExec: one call execute(command, check, shell, env)                  *)
(***************************************************************************)
EnvMaps ==
    {[k \in ks |-> IF k = "PYTHONUNBUFFERED" THEN <<"1">> ELSE <<"/", "b">>] :
        ks \in SUBSET {"PATH", "LANG", "PYTHONUNBUFFERED"}}

\* With shell=True the shell itself starts; a command it cannot find is a
\* non-zero exit.
Outcomes(sh) == IF sh THEN {"zero", "nonzero"} ELSE {"zero", "nonzero", "launch_failure"}

InitExec ==
    /\ op = "execute"
    /\ environ \in EnvMaps
    /\ check \in BOOLEAN
    /\ shell \in BOOLEAN
    /\ env \in {[t |-> "none", v |-> <<>>]} \cup {[t |-> "dict", v |-> d] : d \in EnvMaps}
    /\ localEnv = <<>> /\ childEnv = [t |-> "none", v |-> <<>>]
    /\ childOutcome = "none" /\ stdout = <<>> /\ info = 0
    /\ error = "" /\ execPc = "env" /\ execErr = ""
    /\ FsIdle
    /\ SnapIdle
    /\ DigestIdle

ExecFrame == UNCHANGED <<op, environ, check, shell, env, outsideExec>>

\* utils.py:28-33
ExecEnv ==
    /\ op = "execute" /\ execPc = "env"
    /\ localEnv' = ChildEnvironment(env, environ)
    /\ execPc' = "announce"
    /\ UNCHANGED <<childEnv, childOutcome, stdout, info, error, execErr>>
    /\ ExecFrame

\* utils.py:35-39
ExecAnnounce ==
    /\ op = "execute" /\ execPc = "announce"
    /\ info' = info + 1
    /\ stdout' = Append(stdout, Delimiter)
    /\ execPc' = "call"
    /\ UNCHANGED <<localEnv, childEnv, childOutcome, error, execErr>>
    /\ ExecFrame

\* utils.py:41-45: the child writes to the same standard output
ExecCall ==
    /\ op = "execute" /\ execPc = "call"
    /\ \E outcome \in Outcomes(shell) :
          LET e == CallError(check, outcome)
          IN /\ childOutcome' = outcome
             /\ childEnv' = [t |-> "dict", v |-> localEnv]
             /\ stdout' = IF outcome = "launch_failure" THEN stdout
                          ELSE Append(stdout, "child output")
             /\ error' = IF Caught(e) THEN e ELSE ""
             /\ execErr' = IF e # "" /\ ~Caught(e) THEN e ELSE ""
             /\ execPc' = IF e # "" /\ ~Caught(e) THEN "raised" ELSE "close"
    /\ UNCHANGED <<localEnv, info>>
    /\ ExecFrame

\* utils.py:47-48
ExecClose ==
    /\ op = "execute" /\ execPc = "close"
    /\ stdout' = Append(stdout, Delimiter)
    /\ execPc' = "finish"
    /\ UNCHANGED <<localEnv, childEnv, childOutcome, info, error, execErr>>
    /\ ExecFrame

\* utils.py:50-51
ExecFinish ==
    /\ op = "execute" /\ execPc = "finish"
    /\ execErr' = error
    /\ execPc' = IF error # "" THEN "raised" ELSE "returned"
    /\ UNCHANGED <<localEnv, childEnv, childOutcome, stdout, info, error>>
    /\ ExecFrame

NextExec == ExecEnv \/ ExecAnnounce \/ ExecCall \/ ExecClose \/ ExecFinish

SpecExec == InitExec /\ [][NextExec]_vars

(***************************************************************************)
(* hashlib.md5 (RFC 1321).  A 32-bit word is <<high 16 bits, low 16 bits>>.*)
(***************************************************************************)
RECURSIVE And16(_, _)
And16(a, b) == IF a = 0 \/ b = 0 THEN 0
               ELSE ((a % 2) * (b % 2)) + (2 * And16(a \div 2, b \div 2))
Not16(a) == 65535 - a
Or16(a, b) == a + b - And16(a, b)
Xor16(a, b) == a + b - (2 * And16(a, b))

WAnd(a, b) == <<And16(a[1], b[1]), And16(a[2], b[2])>>
WOr(a, b) == <<Or16(a[1], b[1]), Or16(a[2], b[2])>>
WXor(a, b) == <<Xor16(a[1], b[1]), Xor16(a[2], b[2])>>
WNot(a) == <<Not16(a[1]), Not16(a[2])>>
WAdd(a, b) == <<(a[1] + b[1] + ((a[2] + b[2]) \div 65536)) % 65536, (a[2] + b[2]) % 65536>>

RECURSIVE Pow2(_)
Pow2(n) == IF n = 0 THEN 1 ELSE 2 * Pow2(n - 1)
\* rotate left by n, 0 < n < 32
RotL(a, n) ==
    LET b == IF n >= 16 THEN <<a[2], a[1]>> ELSE a
        k == n % 16
    IN IF k = 0 THEN b
       ELSE <<((b[1] * Pow2(k)) % 65536) + (b[2] \div Pow2(16 - k)),
              ((b[2] * Pow2(k)) % 65536) + (b[1] \div Pow2(16 - k))>>

Md5K == <<
      <<55146, 42104>>, <<59591, 46934>>, <<9248, 28891>>, <<49597, 52974>>,
      <<62844, 4015>>, <<18311, 50730>>, <<43056, 17939>>, <<64838, 38145>>,
      <<27008, 39128>>, <<35652, 63407>>, <<65535, 23473>>, <<35164, 55230>>,
      <<27536, 4386>>, <<64920, 29075>>, <<42617, 17294>>, <<18868, 2081>>,
      <<63006, 9570>>, <<49216, 45888>>, <<9822, 23121>>, <<59830, 51114>>,
      <<54831, 4189>>, <<580, 5203>>, <<55457, 59009>>, <<59347, 64456>>,
      <<8673, 52710>>, <<49975, 2006>>, <<62677, 3463>>, <<17754, 5357>>,
      <<43491, 59653>>, <<64751, 41976>>, <<26479, 729>>, <<36138, 19594>>,
      <<65530, 14658>>, <<34673, 63105>>, <<28061, 24866>>, <<64997, 14348>>,
      <<42174, 59972>>, <<19422, 53161>>, <<63163, 19296>>, <<48831, 48240>>,
      <<10395, 32454>>, <<60065, 10234>>, <<54511, 12421>>, <<1160, 7429>>,
      <<55764, 53305>>, <<59099, 39397>>, <<8098, 31992>>, <<50348, 22117>>,
      <<62505, 8772>>, <<17194, 65431>>, <<43924, 9127>>, <<64659, 41017>>,
      <<25947, 22979>>, <<36620, 52370>>, <<65519, 62589>>, <<34180, 24017>>,
      <<28584, 32335>>, <<65068, 59104>>, <<41729, 17172>>, <<19976, 4513>>,
      <<63315, 32386>>, <<48442, 62005>>, <<10967, 53947>>, <<60294, 54161>> >>

Md5S == <<
      7, 12, 17, 22, 7, 12, 17, 22, 7, 12, 17, 22, 7, 12, 17, 22,
      5, 9, 14, 20, 5, 9, 14, 20, 5, 9, 14, 20, 5, 9, 14, 20,
      4, 11, 16, 23, 4, 11, 16, 23, 4, 11, 16, 23, 4, 11, 16, 23,
      6, 10, 15, 21, 6, 10, 15, 21, 6, 10, 15, 21, 6, 10, 15, 21 >>

\* The message padded to one 64-byte block: 0x80, zeros, the bit length as a
\* little-endian 64-bit number (contents of at most 55 bytes).
Md5Pad(data) ==
    [i \in 1..64 |->
        IF i <= Len(data) THEN data[i]
        ELSE IF i = Len(data) + 1 THEN 128
        ELSE IF i = 57 THEN (8 * Len(data)) % 256
        ELSE IF i = 58 THEN (8 * Len(data)) \div 256
        ELSE 0]

\* Word g (0..15) of a block, little endian.
Md5Word(block, g) ==
    <<(block[4 * g + 4] * 256) + block[4 * g + 3], (block[4 * g + 2] * 256) + block[4 * g + 1]>>

Md5F(i, b, c, d) ==
    IF i < 16 THEN WOr(WAnd(b, c), WAnd(WNot(b), d))
    ELSE IF i < 32 THEN WOr(WAnd(d, b), WAnd(WNot(d), c))
    ELSE IF i < 48 THEN WXor(b, WXor(c, d))
    ELSE WXor(c, WOr(b, WNot(d)))

Md5G(i) ==
    IF i < 16 THEN i
    ELSE IF i < 32 THEN (5 * i + 1) % 16
    ELSE IF i < 48 THEN (3 * i + 5) % 16
    ELSE (7 * i) % 16

\* Rounds i .. n-1 of the block transformation on the state <<A, B, C, D>>.
RECURSIVE Md5Rounds(_, _, _, _)
Md5Rounds(block, i, n, st) ==
    IF i = n THEN st
    ELSE LET f == WAdd(WAdd(Md5F(i, st[2], st[3], st[4]), st[1]),
                       WAdd(Md5K[i + 1], Md5Word(block, Md5G(i))))
             b == WAdd(st[2], RotL(f, Md5S[i + 1]))
         IN IF b[1] >= 0 /\ b[2] >= 0
            THEN Md5Rounds(block, i + 1, n, <<st[4], b, st[2], st[3]>>)
            ELSE st

Md5Init == <<<<26437, 8961>>, <<61389, 43913>>, <<39098, 56574>>, <<4146, 21622>>>>

WBytes(a) == <<a[2] % 256, a[2] \div 256, a[1] % 256, a[1] \div 256>>

\* hashlib.md5 of a message of at most 55 bytes: 16 bytes
Md5(data) ==
    LET block == Md5Pad(data)
        s1 == Md5Rounds(block, 0, 16, Md5Init)
        s2 == Md5Rounds(block, 16, 32, s1)
        s3 == Md5Rounds(block, 32, 48, s2)
        st == Md5Rounds(block, 48, 64, s3)
    IN WBytes(WAdd(Md5Init[1], st[1])) \o WBytes(WAdd(Md5Init[2], st[2]))
       \o WBytes(WAdd(Md5Init[3], st[3])) \o WBytes(WAdd(Md5Init[4], st[4]))

(***************************************************************************)
(* digest (utils.py:111-120)                                               *)
(***************************************************************************)
\* Mutant of PathExists: os.path.isfile in place of os.path.exists.
PathIsFile(n) == n.kind = "file"

\* utils.py:112: os.path.exists(path)
PathExists(n) == n.kind # "none"

\* utils.py:115: open(path, "rb")
OpenError(n) ==
    IF n.kind = "none" THEN "FileNotFoundError"
    ELSE IF n.kind = "dir" THEN "IsADirectoryError"
    ELSE IF ~n.readable /\ ~privileged THEN "PermissionError"
    ELSE ""

(***************************************************************************)
(* SpecDigest: calls digest(path) while other processes rewrite, remove    *)
(* and protect what is at path between the calls                           *)
(***************************************************************************)
MaxBytes == 1      \* length of the file content
MaxDigests == 2    \* digest calls

RECURSIVE Contents(_)
Contents(n) ==
    IF n = 0 THEN {<<>>}
    ELSE Contents(n - 1) \cup
         {Append(d, b) : d \in {c \in Contents(n - 1) : Len(c) = n - 1}, b \in {0, 97}}

\* utils.py:118-120: md5.update(config_data); md5.digest()
Md5Table == [d \in Contents(MaxBytes) |-> Md5(d)]
Md5Digest(config) == Md5Table[config]

Nodes == {Nothing, Directory} \cup
         {RegularFile(r, d) : r \in BOOLEAN, d \in Contents(MaxBytes)}

InitDigest ==
    /\ op = "digest"
    /\ node \in Nodes
    /\ config_data = <<>> /\ result = NoResult
    /\ dgPc = "start" /\ dgErr = "" /\ calls = <<>>
    /\ environ = <<>>
    /\ POSIX_MODE = TRUE /\ privileged \in BOOLEAN
    /\ certificate_permissions = [files_mode |-> PyNone, dirs_mode |-> PyNone,
                                  user |-> PyNone, group |-> PyNone]
    /\ fs = [p \in Paths |-> NoEntry]
    /\ syscalls = <<>> /\ warnings = 0
    /\ fpPc = "idle" /\ fpErr = "" /\ uid = -1 /\ gid = -1
    /\ CwsIdle
    /\ fsPrev = fs
    /\ SnapIdle
    /\ ExecIdle

DigestFrame == UNCHANGED <<op, environ, outsideDigest>>

DigestResting == dgPc \in {"start", "returned", "raised"}

\* Another process replaces, removes or protects what is at path.
Rewrite ==
    /\ op = "digest" /\ DigestResting
    /\ Len(calls) < MaxDigests
    /\ \E n \in Nodes : n # node /\ node' = n
    /\ UNCHANGED <<config_data, result, dgPc, dgErr, calls>>
    /\ DigestFrame

\* utils.py:111: a call starts
DigestCall ==
    /\ op = "digest" /\ DigestResting
    /\ Len(calls) < MaxDigests
    /\ dgPc' = "exists"
    /\ dgErr' = ""
    /\ result' = NoResult
    /\ config_data' = <<>>
    /\ UNCHANGED <<node, calls>>
    /\ DigestFrame

Record(n, r, e) == [node |-> n, result |-> r, err |-> e]

\* utils.py:112-113
DigestExists ==
    /\ op = "digest" /\ dgPc = "exists"
    /\ IF ~PathExists(node)
       THEN /\ result' = PyNoneResult
            /\ dgPc' = "returned"
            /\ calls' = Append(calls, Record(node, PyNoneResult, ""))
       ELSE /\ dgPc' = "read"
            /\ UNCHANGED <<result, calls>>
    /\ UNCHANGED <<node, config_data, dgErr>>
    /\ DigestFrame

\* utils.py:115-116
DigestRead ==
    /\ op = "digest" /\ dgPc = "read"
    /\ LET e == OpenError(node)
       IN IF e # ""
          THEN /\ dgErr' = e
               /\ dgPc' = "raised"
               /\ calls' = Append(calls, Record(node, NoResult, e))
               /\ UNCHANGED config_data
          ELSE /\ config_data' = node.data
               /\ dgPc' = "hash"
               /\ UNCHANGED <<dgErr, calls>>
    /\ UNCHANGED <<node, result>>
    /\ DigestFrame

\* utils.py:118-120
DigestHash ==
    /\ op = "digest" /\ dgPc = "hash"
    /\ result' = Bytes(Md5Digest(config_data))
    /\ dgPc' = "returned"
    /\ calls' = Append(calls, Record(node, result', ""))
    /\ UNCHANGED <<node, config_data, dgErr>>
    /\ DigestFrame

NextDigest == Rewrite \/ DigestCall \/ DigestExists \/ DigestRead \/ DigestHash

SpecDigest == InitDigest /\ [][NextDigest]_vars

(***************************************************************************)
(* Claims about fix_permissions                                            *)
(***************************************************************************)
FixDone == op = "fix" /\ fpPc \in {"returned", "raised"}
FixReturned == op = "fix" /\ fpPc = "returned"

Enforced(f, cp, p) ==
    /\ f[p].kind = "dir" =>
          f[p].mode = ModeOnDisk("dir", Get(cp.dirs_mode, DefaultDirsMode))
    /\ f[p].kind = "file" =>
          f[p].mode = ModeOnDisk("file", Get(cp.files_mode, DefaultFilesMode))

AllEnforced(f, cp, top) == \A p \in Under(top) : Enforced(f, cp, p)

\* C1: when fix_permissions(spec, target_path) returns, the root and every
\* directory below it has mode dirs_mode and every file has mode files_mode,
\* for any files_mode and dirs_mode.
C1_AllModesEnforced ==
    FixReturned => AllEnforced(fs, certificate_permissions, Target)

\* C10: without user/group support, a spec with user or group set (a name or
\* any numeric id, 0 included) makes fix_permissions change no ownership, warn
\* exactly once, raise nothing and still apply both modes to the whole
\* subtree; with neither set it does not warn.
IsSet(v) == v.t # "none"
C10_UnsupportedOwnership ==
    (FixDone /\ ~POSIX_MODE) =>
        /\ fpPc = "returned"
        /\ \A i \in 1..Len(syscalls) : syscalls[i].call # "chown"
        /\ \A p \in Paths : fs[p].uid = fsPrev[p].uid /\ fs[p].gid = fsPrev[p].gid
        /\ AllEnforced(fs, certificate_permissions, Target)
        /\ warnings = IF IsSet(certificate_permissions.user)
                         \/ IsSet(certificate_permissions.group) THEN 1 ELSE 0

(***************************************************************************)
(* Claims about configure_certbot_workspace                                *)
(***************************************************************************)
CwsEnded == op = "cws" /\ cwsPc \in {"returned", "raised"}

\* The system calls of call number k.
EnterAt(k) == CHOOSE i \in 1..Len(syscalls) :
                  syscalls[i].call = "enter" /\ syscalls[i].a = k
LogOf(k) ==
    LET last == IF k < callNo THEN EnterAt(k + 1) - 1 ELSE Len(syscalls)
    IN SubSeq(syscalls, EnterAt(k) + 1, last)
Made(k) ==
    {LogOf(k)[i].path :
        i \in {j \in 1..Len(LogOf(k)) : LogOf(k)[j].call = "mkdir" /\ LogOf(k)[j].err = ""}}

\* C4: a second configure_certbot_workspace call with the same configuration
\* and root creates no directory and leaves every entry, its mode and its
\* ownership as the first call left them.
C4_SecondCallIdempotent ==
    (CwsEnded /\ callNo >= 2) =>
        /\ Made(callNo) = {}
        /\ \A p \in Paths : fs[p] = fsPrev[p]

\* Reached: the first call made both directories and returned, the second
\* call returned as well, with a certificate tree re-enforced.
C4_Witness ==
    /\ CwsEnded /\ callNo = 2 /\ cwsPc = "returned"
    /\ Made(1) = {Root, live_path, archive_path}
    /\ fs[live_path].kind = "dir" /\ fs[archive_path].kind = "dir"

\* Reached: the second call ran over an existing tree two levels deep whose
\* modes the first call had changed.
C4_WitnessTree ==
    /\ CwsEnded /\ callNo = 2 /\ cwsPc = "returned"
    /\ fs[<<"archive", "d", "f">>].kind = "file"
    /\ fs[<<"archive", "d", "f">>].mode = DefaultFilesMode
    /\ Made(1) = {archive_path}

\* C5: enforcement is attempted on both workspace directories in every call;
\* when it fails on the first, it is still performed on the second before the
\* call fails.
C5_BothAttempted ==
    (CwsEnded /\ Len(fixed) >= 1) =>
        {fixed[i].target : i \in 1..Len(fixed)} = {live_path, archive_path}

\* C5 amended: enforcement runs on <root>/archive first; it runs on
\* <root>/live if and only if the first enforcement returned, so a failure on
\* the first directory ends the call with the second one not attempted.
C5_SecondOnlyAfterFirst ==
    CwsEnded =>
        /\ Len(fixed) <= 2
        /\ Len(fixed) >= 1 => fixed[1].target = live_path
        /\ Len(fixed) = 2 <=> (Len(fixed) >= 1 /\ fixed[1].err = "")
        /\ Len(fixed) = 2 => fixed[2].target = archive_path
        /\ (Len(fixed) >= 1 /\ fixed[1].err # "") =>
              /\ cwsPc = "raised" /\ cwsErr = fixed[1].err
              /\ \A i \in 1..Len(LogOf(callNo)) :
                    ~IsPrefix(archive_path, LogOf(callNo)[i].path)
                    \/ LogOf(callNo)[i].call = "mkdir"

\* Reached: enforcement on the first directory raised.
C5_Witness ==
    /\ CwsEnded /\ cwsPc = "raised"
    /\ Len(fixed) = 1 /\ fixed[1].target = live_path /\ fixed[1].err # ""
    /\ fs[archive_path].kind = "dir"

(***************************************************************************)
(* Claims about validate_snap_environment                                  *)
(***************************************************************************)
SnapDone == op = "snap" /\ snapPc \in {"returned", "exited", "raised"}

\* The confinement signal: SNAP is set to a non-empty value.
Signal == "SNAP" \in DOMAIN environ /\ environ["SNAP"] # <<>>

\* The sandbox roots: the confined home and, when it can be listed, /etc.
SandboxRoots ==
    (IF "SNAP_REAL_HOME" \in DOMAIN environ THEN {environ["SNAP_REAL_HOME"]} ELSE {})
    \cup (IF etcListable THEN {Etc} ELSE {})

\* The absolute form of path is root itself or lies below it.
Contained(path, root) ==
    AbsPath(path) = root \/ StartsWith(AbsPath(path), root \o <<"/">>)
InSandbox(path) == \E root \in SandboxRoots : Contained(path, root)

Violations == SelectSeq(logged, LAMBDA msg : msg.kind = "invalid")

\* C2: validate_snap_environment ends the process with exit code 1 exactly
\* when the confinement signal is present and the config path or the
\* directory path is invalid; in every other case it returns normally and
\* logs no violation.
C2_ExitIffSignalAndInvalid ==
    SnapDone =>
        IF Signal /\ (~InSandbox(args.config) \/ ~InSandbox(args.directory))
        THEN snapPc = "exited" /\ exitCode = 1
        ELSE snapPc = "returned" /\ exitCode = -1 /\ Violations = <<>>

\* C3: under the confinement signal a path is accepted exactly when its
\* absolute form is contained under a sandbox root; a sibling of a root that
\* only shares its leading characters (/etcf, /h2/x) is rejected.
Accepted(option) == \A i \in 1..Len(errors) : errors[i].option # option
C3_AcceptedIffContained ==
    (op = "snap" /\ snapPc \in {"returned", "exited"} /\ Signal) =>
        /\ Accepted("--config") <=> InSandbox(args.config)
        /\ Accepted("--directory") <=> InSandbox(args.directory)

\* C9: under the confinement signal both paths are checked before the process
\* ends and the violations logged are one message per path the validation
\* rejects, each naming the rejected path, and none for an accepted path.
Rejected(path) == Matching(valid_paths, path).found = <<>>
ExpectedViolations ==
    (IF Rejected(args.config)
     THEN <<[kind |-> "invalid", option |-> "--config", value |-> args.config]>>
     ELSE <<>>)
    \o (IF Rejected(args.directory)
        THEN <<[kind |-> "invalid", option |-> "--directory", value |-> args.directory]>>
        ELSE <<>>)
C9_ViolationsNameInvalidPaths ==
    (op = "snap" /\ snapPc \in {"returned", "exited"} /\ Signal) =>
        Violations = ExpectedViolations

(***************************************************************************)
(* Claims about execute                                                    *)
(***************************************************************************)
ExecDone == op = "execute" /\ execPc \in {"returned", "raised"}
Delimiters == SelectSeq(stdout, LAMBDA w : w = Delimiter)

\* C6: the opening delimiter is written before the child is started and the
\* closing delimiter after the child attempt ends, whatever its outcome (zero
\* exit, non-zero exit, failure to launch); an error reaches the caller only
\* after the closing delimiter.
C6_DelimitersAroundChild ==
    /\ (op = "execute" /\ childOutcome # "none") =>
          (stdout # <<>> /\ stdout[1] = Delimiter)
    /\ ExecDone =>
          /\ Len(Delimiters) = 2
          /\ stdout[Len(stdout)] = Delimiter

\* C7: the environment handed to the child is the caller's environment (a
\* copy of the process environment when the caller gives none) extended with
\* PYTHONUNBUFFERED = "1".
C7_ChildEnvironmentUnbuffered ==
    (op = "execute" /\ childOutcome # "none") =>
        /\ childEnv.t = "dict"
        /\ childEnv.v = SetItem(IF env.t = "none" THEN environ ELSE env.v,
                                "PYTHONUNBUFFERED", <<"1">>)

(***************************************************************************)
(* Claims about digest                                                     *)
(***************************************************************************)
\* RFC 1321, appendix A.5: the MD5 of the empty message,
\* d41d8cd98f00b204e9800998ecf8427e.
Md5OfEmpty == <<212, 29, 140, 217, 143, 0, 178, 4, 233, 128, 9, 152, 236, 248, 66, 126>>
\* RFC 1321, appendix A.5: the MD5 of "a", 0cc175b9c0f1b6a831c399e269772661.
Md5OfA == <<12, 193, 117, 185, 192, 241, 182, 168, 49, 195, 153, 226, 105, 119, 38, 97>>

SameAtPath(c, d) == c.node.kind = d.node.kind /\ c.node.data = d.node.data

\* C8: digest(path) returns None without raising whenever nothing exists at
\* path and, whenever something exists there, the 16-byte fingerprint of its
\* byte content; the result depends only on existence and content.
C8_NoneOrFingerprint ==
    \A i \in 1..Len(calls) :
        /\ calls[i].err = ""
        /\ calls[i].node.kind = "none" => calls[i].result = PyNoneResult
        /\ calls[i].node.kind # "none" =>
              /\ calls[i].result.t = "bytes" /\ Len(calls[i].result.v) = 16
              /\ calls[i].node.data = <<>> => calls[i].result.v = Md5OfEmpty
        /\ \A j \in 1..Len(calls) :
              SameAtPath(calls[i], calls[j]) => calls[i].result = calls[j].result

\* C8 amended: digest(path) returns None without raising whenever nothing
\* exists at path; when a file the process can read exists there it returns
\* the 16-byte MD5 of its content (the RFC 1321 values for the empty message
\* and for "a"), equal for equal content; when a directory or a file the
\* process cannot read exists there it raises (IsADirectoryError,
\* PermissionError) and returns nothing.
Readable(n) == n.kind = "file" /\ (n.readable \/ privileged)
C8_NoneFingerprintOrRaise ==
    \A i \in 1..Len(calls) :
        LET c == calls[i]
        IN /\ c.node.kind = "none" => (c.err = "" /\ c.result = PyNoneResult)
           /\ Readable(c.node) =>
                 /\ c.err = "" /\ c.result.t = "bytes" /\ Len(c.result.v) = 16
                 /\ \A k \in 1..16 : c.result.v[k] \in 0..255
                 /\ c.node.data = <<>> => c.result.v = Md5OfEmpty
                 /\ c.node.data = <<97>> => c.result.v = Md5OfA
                 /\ \A j \in 1..Len(calls) :
                       (Readable(calls[j].node) /\ c.node.data = calls[j].node.data)
                           => c.result = calls[j].result
           /\ c.node.kind = "dir" => (c.err = "IsADirectoryError" /\ c.result = NoResult)
           /\ (c.node.kind = "file" /\ ~Readable(c.node)) =>
                 (c.err = "PermissionError" /\ c.result = NoResult)

\* Reached: one call found the file holding "a" and returned its fingerprint,
\* and another call found a directory and raised.
C8_Witness ==
    /\ op = "digest" /\ Len(calls) >= 2
    /\ \E i, j \in 1..Len(calls) :
          /\ calls[i].node.kind = "file" /\ calls[i].node.data = <<97>>
          /\ calls[i].result.t = "bytes"
          /\ calls[j].node.kind = "dir" /\ calls[j].err = "IsADirectoryError"

====
